---- MODULE Spec2Model ----
(***************************************************************************)
(* Model of the Bunny CDN DRM video downloader: main() builds a            *)
(* DownloadConfig, constructs a BunnyVideoDRM (which fetches and parses    *)
(* the embed page) and calls download(), which runs the ping / activate /  *)
(* playlist handshake on the main thread and keeps the session alive with  *)
(* a background ping thread while yt-dlp transfers the stream.             *)
(*                                                                         *)
(* Strings the code inspects character by character (URLs, rendition       *)
(* labels, the prompt answer) are sequences of one-character strings; an   *)
(* empty sequence stands for both None and "" (the code only tests their   *)
(* truthiness).  Times are integer microseconds.                           *)
(***************************************************************************)
EXTENDS Integers, Sequences, FiniteSets, TLC

VARIABLES
    args,        \* command-line arguments handed to DownloadConfig (main.py:116)
    config,      \* the DownloadConfig after __post_init__ (referer normalised)
    pc,          \* position of the main thread
    err,         \* exception that propagated to the caller, "none" if none
    session,     \* requests.Session: "none" | "open" | "closed" (close() was called)
    embedGets,   \* number of GETs of the embed page issued
    embed_page,  \* local `embed_page` of _parse_embed_page, <<>> outside it
    guid,        \* self.guid
    server_id,   \* self.server_id, "unset" until extracted
    context_id,  \* self.context_id, "unset" until extracted
    secret,      \* self.secret, "unset" until extracted
    file_name,   \* self.file_name, <<>> until determined
    resolution,  \* local `resolution` of download(), <<>> until selected
    mainLog,     \* outbound steps of the current download() call, in order
    swallowed,   \* RequestExceptions swallowed on the main thread in this call
    downloads,   \* number of download() calls made on the object
    stop,        \* stop_event.is_set() of the current download() call
    hbpc,        \* position of the background ping thread
    time_pos,    \* local `time_pos` of the latest _background_ping, in whole seconds
    hbLast,      \* last ping request issued by the background thread
    hbPings,     \* pings issued by the current background thread
    hbStarted,   \* background threads started on this object so far
    fetchErr,    \* exception pending in download() while its finally block runs
    manifest,    \* `response.text` inside _get_main_playlist, <<>> outside it
    prompts,     \* the lines input() returned in the current download() call
    message,     \* message of the exception _get_main_playlist raised, if any
    lateSends    \* pings the current background thread sent with the stop flag set

vars == <<args, config, pc, err, session, embedGets, embed_page, guid, server_id, context_id,
          secret, file_name, resolution, mainLog, swallowed, downloads, stop,
          hbpc, time_pos, hbLast, hbPings, hbStarted, fetchErr,
          manifest, prompts, message, lateSends>>

-----------------------------------------------------------------------------
(* Bounds *)

MaxTicks == 2
MaxDownloads == 2
MaxPageLen == 3
MaxLines == 2

-----------------------------------------------------------------------------
(* Characters and small string helpers *)

Lower == {"a","b","c","d","e","f","g","h","i","j","k","l","m",
          "n","o","p","q","r","s","t","u","v","w","x","y","z"}
Upper == {"A","B","C","D","E","F","G","H","I","J","K","L","M",
          "N","O","P","Q","R","S","T","U","V","W","X","Y","Z"}
Digits == {"0","1","2","3","4","5","6","7","8","9"}
Letters == Lower \cup Upper
LabelChars == Letters \cup Digits \cup {"-"}

\* s[i..] starts with lit
StartsWithAt(s, lit, i) ==
    /\ i + Len(lit) - 1 <= Len(s)
    /\ \A k \in 1..Len(lit) : s[i + k - 1] = lit[k]

\* str.endswith
EndsWith(s, lit) ==
    /\ Len(lit) <= Len(s)
    /\ \A k \in 1..Len(lit) : s[Len(s) - Len(lit) + k] = lit[k]

\* first index >= i whose character is outside cls (Len(s)+1 if none)
RECURSIVE RunEnd(_, _, _)
RunEnd(s, i, cls) ==
    IF i > Len(s) \/ s[i] \notin cls THEN i ELSE RunEnd(s, i + 1, cls)

RECURSIVE Reverse(_)
Reverse(s) == IF s = <<>> THEN <<>> ELSE Append(Reverse(Tail(s)), Head(s))

Range(s) == {s[i] : i \in 1..Len(s)}

\* index of the last occurrence of c in s, 0 if none
LastIndexOf(s, c) ==
    LET hits == {i \in 1..Len(s) : s[i] = c}
    IN IF hits = {} THEN 0 ELSE CHOOSE i \in hits : \A j \in hits : j <= i

-----------------------------------------------------------------------------
(* DownloadConfig.__post_init__ (config.py) *)

\* position just after "^https?://", 0 when the scheme does not match
SchemeEnd(s) ==
    IF ~StartsWithAt(s, <<"h","t","t","p">>, 1) THEN 0
    ELSE IF StartsWithAt(s, <<"s",":","/","/">>, 5) THEN 9
    ELSE IF StartsWithAt(s, <<":","/","/">>, 5) THEN 8
    ELSE 0

\* "[a-zA-Z]{2,}/" at position g
TldAt(s, g) ==
    LET e == RunEnd(s, g, Letters)
    IN e - g >= 2 /\ e <= Len(s) /\ s[e] = "/"

\* "(?:[a-zA-Z0-9-]+\.)+[a-zA-Z]{2,}/" at position i: one more label group,
\* then either the TLD or further groups
RECURSIVE HostAt(_, _)
HostAt(s, i) ==
    LET j == RunEnd(s, i, LabelChars)
    IN IF j > i /\ j <= Len(s) /\ s[j] = "."
       THEN TldAt(s, j + 1) \/ HostAt(s, j + 1)
       ELSE FALSE

\* re.match(r"^https?://(?:[a-zA-Z0-9-]+\.)+[a-zA-Z]{2,}/", referer)
RefererRegexMatch(s) ==
    LET p == SchemeEnd(s) IN p # 0 /\ HostAt(s, p)

\* if not self.referer.endswith("/"): self.referer += "/"
NormalizeReferer(r) == IF EndsWith(r, <<"/">>) THEN r ELSE Append(r, "/")

\* faulty variant: only the presence of the two fields is checked
PostInit_NoRegex(referer, embed_url) ==
    IF referer = <<>> \/ embed_url = <<>>
    THEN [error |-> "ConfigurationError", referer |-> referer]
    ELSE [error |-> "none", referer |-> NormalizeReferer(referer)]

\* faulty variant: the embed URL is held to the referer's pattern as well
PostInit_EmbedRegex(referer, embed_url) ==
    IF referer = <<>> \/ embed_url = <<>>
    THEN [error |-> "ConfigurationError", referer |-> referer]
    ELSE IF \/ ~RefererRegexMatch(NormalizeReferer(referer))
            \/ ~RefererRegexMatch(NormalizeReferer(embed_url))
    THEN [error |-> "ConfigurationError", referer |-> NormalizeReferer(referer)]
    ELSE [error |-> "none", referer |-> NormalizeReferer(referer)]

\* __post_init__: the error it raises and the referer it leaves
PostInit(referer, embed_url) ==
    IF referer = <<>> \/ embed_url = <<>>
    THEN [error |-> "ConfigurationError", referer |-> referer]
    ELSE IF ~RefererRegexMatch(NormalizeReferer(referer))
    THEN [error |-> "ConfigurationError", referer |-> NormalizeReferer(referer)]
    ELSE [error |-> "none", referer |-> NormalizeReferer(referer)]

-----------------------------------------------------------------------------
(* Inputs *)

\* referers tried: missing, the spec's "not-a-url", two that validate
\* (one only after the slash is appended) and malformed ones, one per part
\* of the pattern
RefererSet ==
    { <<>>,
      <<"n","o","t","-","a","-","u","r","l">>,
      <<"h","t","t","p",":","/","/","a",".","b","c">>,
      <<"h","t","t","p","s",":","/","/","a","-","1",".","b",".","c","d","/","x">>,
      <<"f","t","p",":","/","/","a",".","b","c","/">>,
      <<"h","t","t","p","s",":","/","/","a","b","c","/">>,
      <<"h","t","t","p","s",":","/","/","a",".","b","/">>,
      <<"h","t","t","p","s",":","/","/","a",".","b","1","/">>,
      <<"h","t","t","p","s",":","/","/",".","b","c","/">>,
      <<"h","t","t","p","s",":","/","a",".","b","c","/">>,
      <<"x","h","t","t","p",":","/","/","a",".","b","c","/">>,
      <<"h","t","t","p","s",":","/","/","a","_","b",".","c","d","/">>,
      <<"h","t","t","p","s",":","/","/","a",".","b","c",".","d","/">> }

\* embed URLs tried: missing, one without a scheme, one absolute https URL
EmbedUrlSet ==
    { <<>>,
      <<"i",".","n","e","t","/","e","/","g","1">>,
      <<"h","t","t","p","s",":","/","/","i",".","n","e","t","/","e","/","g","1">> }

NameSet == { <<>>, <<"v">> }

L480 == <<"6","4","0","x","4","8","0">>
L720 == <<"1","2","8","0","x","7","2","0">>
L1080 == <<"1","9","2","0","x","1","0","8","0">>
\* a label that is also a substring of another label
S720 == <<"7","2","0">>

\* --resolution values tried: none, one that is a label and a substring of
\* another label, a substring of several labels, one that matches no label,
\* and a string that is not a regular expression
TargetSet == { <<>>, S720, <<"0","x">>, <<"4","K">>, <<"(">> }

\* a line of a manifest: "<label>/video.drm", or a line without that marker
\* (#EXTM3U, #EXT-X-STREAM-INF:...)
Marker(label) == [kind |-> "marker", label |-> label]
OtherLine == [kind |-> "other"]
ManifestLines == { OtherLine, Marker(L720), Marker(S720) }

\* the manifest the server emits for three renditions, lowest first
SampleBody == << OtherLine, Marker(L480), Marker(L720), Marker(L1080) >>

\* manifest bodies tried, as their lines in document order
BodySet ==
    { SampleBody } \cup UNION { [1..n -> ManifestLines] : n \in 0..MaxLines }

\* answers typed at the interactive prompt
InputSet == { <<"1">>, <<"3">>, <<"0">>, <<"4">>, <<"x">>, <<"-","1">> }

\* fragments an embed page may contain: one for each of the three patterns
\* _parse_embed_page searches for, and text that matches none
Fragments ==
    { [kind |-> "server", id |-> "s1"],
      [kind |-> "other"],
      [kind |-> "ctx", ctx |-> "c1", key |-> "k1"],
      [kind |-> "title", text |-> <<"a","&amp;","b">>] }

PageSet == UNION { [1..n -> Fragments] : n \in 0..MaxPageLen }

\* the command lines tried: every referer and embed URL with the other options
\* left at their defaults and, with one referer, every --name and every
\* combination of --interactive and --resolution
ArgsSet ==
    { a \in [referer : RefererSet, embed_url : EmbedUrlSet, name : NameSet,
              interactive : BOOLEAN, resolution : TargetSet] :
        \/ a.name = <<>> /\ ~a.interactive /\ a.resolution = <<>>
        \/ /\ a.referer = <<"h","t","t","p",":","/","/","a",".","b","c">>
           /\ \/ ~a.interactive /\ a.resolution = <<>>
              \/ a.name = <<>> }

\* random() in units of 1e-7; the values straddle the rounding to 6 places
RandomSet == { 0, 5000004, 9999995 }

-----------------------------------------------------------------------------
(* BunnyVideoDRM.__init__ and _parse_embed_page (downloader.py) *)

\* urlparse(url).path for URLs without query or fragment
UrlPath(url) ==
    LET p == SchemeEnd(url)
        q == IF p = 0 THEN 1 ELSE RunEnd(url, p, LabelChars \cup {".", ":"})
    IN SubSeq(url, q, Len(url))

\* urlparse(config.embed_url).path.split("/")[-1]
Guid(url) ==
    LET path == UrlPath(url) IN SubSeq(path, LastIndexOf(path, "/") + 1, Len(path))

\* what session.get(embed_url) + raise_for_status() can yield: a transport or
\* status failure, or a page; requests refuses a URL without http(s) scheme
EmbedResponses(url) ==
    {[ok |-> FALSE, page |-> <<>>]}
    \cup (IF SchemeEnd(url) # 0 THEN {[ok |-> TRUE, page |-> p] : p \in PageSet} ELSE {})

\* re.search over the page: index of the first fragment of the kind, 0 if none
Search(page, kind) ==
    LET hits == {i \in 1..Len(page) : page[i].kind = kind}
    IN IF hits = {} THEN 0 ELSE CHOOSE i \in hits : \A j \in hits : i <= j

\* html.unescape on the one entity the titles use
RECURSIVE Unescape(_)
Unescape(t) ==
    IF t = <<>> THEN <<>>
    ELSE <<(IF Head(t) = "&amp;" THEN "&" ELSE Head(t))>> \o Unescape(Tail(t))

Mp4 == <<".","m","p","4">>

\* the file name: f"{name}.mp4", or the unescaped og:title with ".mp4" ensured
FileName(name, page) ==
    IF name # <<>> THEN name \o Mp4
    ELSE LET t == Unescape(page[Search(page, "title")].text)
         IN IF EndsWith(t, Mp4) THEN t ELSE t \o Mp4

\* faulty variant: a page without the contextId/secret pattern is accepted
ParseEmbedPage_NoCtxCheck(page, name) ==
    LET s == Search(page, "server")
        c == Search(page, "ctx")
        t == Search(page, "title")
        none == [error |-> "none", server_id |-> "unset", context_id |-> "unset",
                 secret |-> "unset", file_name |-> <<>>]
    IN IF s = 0 THEN [none EXCEPT !.error = "ExtractionError"]
       ELSE IF name = <<>> /\ t = 0
       THEN [none EXCEPT !.error = "ExtractionError", !.server_id = page[s].id]
       ELSE [none EXCEPT !.server_id = page[s].id,
                         !.context_id = IF c = 0 THEN "unset" ELSE page[c].ctx,
                         !.secret = IF c = 0 THEN "unset" ELSE page[c].key,
                         !.file_name = FileName(name, page)]

\* faulty variant: a missing og:title yields a bare ".mp4" name instead of failing
ParseEmbedPage_TitleFallback(page, name) ==
    LET s == Search(page, "server")
        c == Search(page, "ctx")
        t == Search(page, "title")
        none == [error |-> "none", server_id |-> "unset", context_id |-> "unset",
                 secret |-> "unset", file_name |-> <<>>]
    IN IF s = 0 THEN [none EXCEPT !.error = "ExtractionError"]
       ELSE IF c = 0
       THEN [none EXCEPT !.error = "ExtractionError", !.server_id = page[s].id]
       ELSE [none EXCEPT !.server_id = page[s].id, !.context_id = page[c].ctx,
                         !.secret = page[c].key,
                         !.file_name = IF name = <<>> /\ t = 0 THEN Mp4
                                       ELSE FileName(name, page)]

\* the parsing half of _parse_embed_page: the fields it assigns, in order,
\* and the error it raises
ParseEmbedPage(page, name) ==
    LET s == Search(page, "server")
        c == Search(page, "ctx")
        t == Search(page, "title")
        none == [error |-> "none", server_id |-> "unset", context_id |-> "unset",
                 secret |-> "unset", file_name |-> <<>>]
    IN IF s = 0 THEN [none EXCEPT !.error = "ExtractionError"]
       ELSE IF c = 0
       THEN [none EXCEPT !.error = "ExtractionError", !.server_id = page[s].id]
       ELSE IF name = <<>> /\ t = 0
       THEN [none EXCEPT !.error = "ExtractionError", !.server_id = page[s].id,
                         !.context_id = page[c].ctx, !.secret = page[c].key]
       ELSE [none EXCEPT !.server_id = page[s].id, !.context_id = page[c].ctx,
                         !.secret = page[c].key, !.file_name = FileName(name, page)]

-----------------------------------------------------------------------------
(* _ping (downloader.py) *)

DigitChar(d) == <<"0","1","2","3","4","5","6","7","8","9">>[d + 1]

\* decimal digits of a natural number
RECURSIVE NatStr(_)
NatStr(n) == IF n < 10 THEN <<DigitChar(n)>> ELSE Append(NatStr(n \div 10), DigitChar(n % 10))

\* the six fraction digits of f microseconds, trailing zeros dropped, one kept
RECURSIVE FracStr(_, _)
FracStr(f, width) ==
    IF width = 1 \/ f % 10 # 0
    THEN [i \in 1..(width - Len(NatStr(f))) |-> "0"] \o NatStr(f)
    ELSE FracStr(f \div 10, width - 1)

\* str(time_pos): an int prints bare, a float with its fraction
FormatTime(t) ==
    IF t.float THEN NatStr(t.us \div 1000000) \o <<".">> \o FracStr(t.us % 1000000, 6)
    ELSE NatStr(t.us \div 1000000)

\* md5(...).hexdigest(), kept as the digest of its input (collisions not modelled)
Md5(input) == [md5 |-> input]

\* faulty variant: the number of pings sent so far enters the digest
PingRequest_CounterInHash(t, paused, res) ==
    [ server     |-> server_id,
      ctx        |-> context_id,
      hash       |-> Md5(<<secret, "_", context_id, "_", FormatTime(t), "_", paused, "_", res,
                          "_", hbPings>>),
      time       |-> FormatTime(t),
      paused     |-> paused,
      chosen_res |-> res ]

\* faulty variant: the time parameter is sent in whole seconds
PingRequest_WholeSeconds(t, paused, res) ==
    [ server     |-> server_id,
      ctx        |-> context_id,
      hash       |-> Md5(<<secret, "_", context_id, "_", FormatTime(t), "_", paused, "_", res>>),
      time       |-> NatStr(t.us \div 1000000),
      paused     |-> paused,
      chosen_res |-> res ]

\* the GET _ping sends for (time_pos, paused, res)
PingRequest(t, paused, res) ==
    [ server     |-> server_id,
      ctx        |-> context_id,
      hash       |-> Md5(<<secret, "_", context_id, "_", FormatTime(t), "_", paused, "_", res>>),
      time       |-> FormatTime(t),
      paused     |-> paused,
      chosen_res |-> res ]

NoRequest == [none |-> TRUE]

-----------------------------------------------------------------------------
(* _get_main_playlist (downloader.py): parsing and selection *)

\* re.compile(target) succeeds (the targets tried use literals, "." and "(")
PatternCompiles(t) == "(" \notin Range(t)

\* re.search(target, label) for a pattern of literals and "."
ReSearch(t, label) ==
    \E off \in 0..(Len(label) - Len(t)) :
        \A k \in 1..Len(t) : t[k] = "." \/ t[k] = label[off + k]

\* the test the selection loop applies to one label
LabelMatches(target, label) ==
    \/ target = label
    \/ PatternCompiles(target) /\ ReSearch(target, label)

\* int(choice): optional sign, then digits; ok = FALSE stands for ValueError
ParseInt(c) ==
    LET neg == c # <<>> /\ Head(c) = "-"
        ds  == IF c # <<>> /\ Head(c) \in {"-", "+"} THEN Tail(c) ELSE c
        val[i \in 0..Len(ds)] ==
            IF i = 0 THEN 0
            ELSE 10 * val[i - 1] + (CHOOSE d \in 0..9 : DigitChar(d) = ds[i])
    IN IF ds = <<>> \/ Range(ds) \ Digits # {}
       THEN [ok |-> FALSE, val |-> 0]
       ELSE [ok |-> TRUE, val |-> IF neg THEN 0 - val[Len(ds)] ELSE val[Len(ds)]]

\* re.findall(r"\s*(.*?)\s*/video\.drm", text): the labels of the marker
\* lines, in document order
FindAll(body) ==
    LET marked == SelectSeq(body, LAMBDA line : line.kind = "marker")
    IN [i \in 1..Len(marked) |-> marked[i].label]

\* faulty variant: the list is left in document order
Resolutions_DocumentOrder(body) == FindAll(body)

\* line 201: re.findall(...)[::-1]
Resolutions(body) == Reverse(FindAll(body))

\* the messages of the exceptions _get_main_playlist raises
NoMessage == [kind |-> "none"]
FetchFailed == [kind |-> "Error fetching playlist"]
NoResolutions == [kind |-> "No resolutions found."]
NotFound(target, resolutions) ==
    [kind |-> "Requested resolution not found", target |-> target,
     available |-> resolutions]
InvalidSelection == [kind |-> "Invalid resolution selection"]

Raise(error, msg) == [error |-> error, res |-> <<>>, asked |-> FALSE, message |-> msg]
Selected(label, asked) ==
    [error |-> "none", res |-> label, asked |-> asked, message |-> NoMessage]

\* faulty variant: the loop keeps the last label that matches
FirstHit_Last(resolutions, target) ==
    LET hits == {i \in 1..Len(resolutions) : LabelMatches(target, resolutions[i])}
    IN IF hits = {} THEN 0 ELSE CHOOSE i \in hits : \A j \in hits : i >= j

\* lines 207-219: the index at which the loop over the labels returns, 0 if
\* it runs to its end
FirstHit(resolutions, target) ==
    LET hits == {i \in 1..Len(resolutions) : LabelMatches(target, resolutions[i])}
    IN IF hits = {} THEN 0 ELSE CHOOSE i \in hits : \A j \in hits : i <= j

\* faulty variant: a target that matches nothing falls through to the default
SelectByTarget_Fallback(resolutions, target) ==
    LET i == FirstHit(resolutions, target)
    IN Selected(resolutions[IF i = 0 THEN 1 ELSE i], FALSE)

\* lines 205-223: selection by config.resolution
SelectByTarget(resolutions, target) ==
    LET i == FirstHit(resolutions, target)
    IN IF i = 0 THEN Raise("PlaylistError", NotFound(target, resolutions))
       ELSE Selected(resolutions[i], FALSE)

\* faulty variant: the typed index is used as it is, without the "- 1"
SelectByPrompt_ZeroBased(resolutions, answer) ==
    LET n == ParseInt(answer)
    IN IF n.ok /\ 0 <= n.val /\ n.val < Len(resolutions)
       THEN Selected(resolutions[n.val + 1], TRUE)
       ELSE [Raise("PlaylistError", InvalidSelection) EXCEPT !.asked = TRUE]

\* lines 225-240: selection by the answer typed at the prompt
SelectByPrompt(resolutions, answer) ==
    LET n == ParseInt(answer)
    IN IF n.ok /\ 0 <= n.val - 1 /\ n.val - 1 < Len(resolutions)
       THEN Selected(resolutions[n.val], TRUE)
       ELSE [Raise("PlaylistError", InvalidSelection) EXCEPT !.asked = TRUE]

\* faulty variant: an empty list is reported as a failed fetch
SelectResolution_EmptyIsNetwork(resolutions, target, interactive, answer) ==
    IF resolutions = <<>> THEN Raise("NetworkError", FetchFailed)
    ELSE IF target # <<>> THEN SelectByTarget(resolutions, target)
    ELSE IF interactive THEN SelectByPrompt(resolutions, answer)
    ELSE Selected(resolutions[1], FALSE)

\* faulty variant: interactive mode is tested before config.resolution
SelectResolution_PromptFirst(resolutions, target, interactive, answer) ==
    IF resolutions = <<>> THEN Raise("PlaylistError", NoResolutions)
    ELSE IF interactive THEN SelectByPrompt(resolutions, answer)
    ELSE IF target # <<>> THEN SelectByTarget(resolutions, target)
    ELSE Selected(resolutions[1], FALSE)

\* lines 202-243: the rendition returned, or the error raised
SelectResolution(resolutions, target, interactive, answer) ==
    IF resolutions = <<>> THEN Raise("PlaylistError", NoResolutions)
    ELSE IF target # <<>> THEN SelectByTarget(resolutions, target)
    ELSE IF interactive THEN SelectByPrompt(resolutions, answer)
    ELSE Selected(resolutions[1], FALSE)

\* faulty variant: the part before the first "x" (the width) is taken
ResVal_Width(label) ==
    IF "x" \in Range(label)
    THEN SubSeq(label, 1, (CHOOSE i \in 1..Len(label) :
                             label[i] = "x" /\ \A j \in 1..(i - 1) : label[j] # "x") - 1)
    ELSE label

\* resolution.split("x")[-1]
ResVal(label) == SubSeq(label, LastIndexOf(label, "x") + 1, Len(label))

\* round(random(), 6) in microseconds, random() given in units of 1e-7
Round6(r) == (r + 5) \div 10

-----------------------------------------------------------------------------
(* Control flow of download() (downloader.py:291-353) *)

\* faulty variant: the background thread is started before the confirmation call
DownloadSteps_StartEarly ==
    << "d_ping", "d_activate", "d_playlist", "d_select", "d_start", "d_confirm",
       "d_fetch", "d_fetching", "f_set", "f_join", "f_close", "d_return" >>

\* the statements of download() in program order
DownloadSteps ==
    << "d_ping", "d_activate", "d_playlist", "d_select", "d_confirm", "d_start",
       "d_fetch", "d_fetching", "f_set", "f_join", "f_close", "d_return" >>

\* the statement that follows p
After(p) ==
    LET i == CHOOSE k \in 1..Len(DownloadSteps) : DownloadSteps[k] = p
    IN DownloadSteps[i + 1]

\* faulty variant: cleanup written after the call instead of in a finally block
AfterFetch_NoFinally(outcome) ==
    IF outcome = "none" THEN After("d_fetching") ELSE "d_return"

\* try/finally: the finally block runs whether ydl.download returned or raised
AfterFetch(outcome) == After("d_fetching")

\* faulty variant: join with a timeout returns while the thread is still running
JoinReturns_Timeout(threadPc) == TRUE

\* ping_thread.join() returns once the thread has terminated
JoinReturns(threadPc) == threadPc = "done"

\* faulty variant: the loop never looks at the flag
LoopContinues_Always(flag, t) == TRUE

\* faulty variant: the loop tests the flag only before its first tick
LoopContinues_FirstOnly(flag, t) == ~flag \/ t > 0

\* `while not stop_event.is_set()`
LoopContinues(flag, t) == ~flag

\* faulty variant: a failed ping ends the loop
AfterPing_FailStops(ok) == IF ok = "failed" THEN "done" ELSE "sleep"

\* _ping returns to the loop body whether its GET succeeded or raised
\* RequestException (lines 159-166); the loop goes on at line 288
AfterPing(ok) == "sleep"

Step(op, req) == [op |-> op, req |-> req]

\* faulty variant: a failed call propagates out of download()
AfterSwallowed_Raises(p, ok) == IF ok THEN After(p) ELSE "returned"

\* `except requests.RequestException` in _ping, _activate and
\* _video_playlist: the helper returns normally, download() goes on
AfterSwallowed(p, ok) == After(p)

\* `except requests.RequestException: pass` on the main thread
Swallow(ok) == swallowed' = swallowed + (IF ok THEN 0 ELSE 1)

NoConfig ==
    [referer |-> <<>>, embed_url |-> <<>>, name |-> <<>>,
     interactive |-> FALSE, resolution |-> <<>>]

\* the frame of a download() call before its first statement
FreshCall ==
    /\ resolution' = <<>>
    /\ mainLog' = <<>>
    /\ swallowed' = 0
    /\ stop' = FALSE
    /\ hbpc' = "idle"
    /\ hbLast' = NoRequest
    /\ hbPings' = 0
    /\ fetchErr' = "none"
    /\ manifest' = <<>>
    /\ prompts' = <<>>
    /\ message' = NoMessage
    /\ lateSends' = 0

-----------------------------------------------------------------------------
(* Initial state and actions *)

Init ==
    /\ args \in ArgsSet
    /\ config = NoConfig
    /\ pc = "main"
    /\ err = "none"
    /\ session = "none"
    /\ embedGets = 0
    /\ embed_page = <<>>
    /\ guid = <<>>
    /\ server_id = "unset"
    /\ context_id = "unset"
    /\ secret = "unset"
    /\ file_name = <<>>
    /\ resolution = <<>>
    /\ mainLog = <<>>
    /\ swallowed = 0
    /\ downloads = 0
    /\ stop = FALSE
    /\ hbpc = "idle"
    /\ time_pos = 0
    /\ hbLast = NoRequest
    /\ hbPings = 0
    /\ hbStarted = 0
    /\ fetchErr = "none"
    /\ manifest = <<>>
    /\ prompts = <<>>
    /\ message = NoMessage
    /\ lateSends = 0

\* main.py:116-124, DownloadConfig(...) with its __post_init__
MakeConfig ==
    /\ pc = "main"
    /\ LET r == PostInit(args.referer, args.embed_url)
       IN IF r.error # "none"
          THEN /\ pc' = "exit"
               /\ err' = r.error
               /\ UNCHANGED config
          ELSE /\ pc' = "construct"
               /\ config' = [args EXCEPT !.referer = r.referer]
               /\ UNCHANGED err
    /\ UNCHANGED <<args, session, embedGets, embed_page, guid, server_id, context_id, secret,
                   file_name, resolution, mainLog, downloads, stop, hbpc,
                   time_pos, hbLast, hbPings, hbStarted, fetchErr>>
    /\ UNCHANGED <<swallowed, manifest, prompts, message, lateSends>>

\* main.py:129, BunnyVideoDRM(config): __init__ up to its call of
\* _parse_embed_page (lines 49-64)
Construct ==
    /\ pc = "construct"
    /\ IF config.referer = <<>> \/ config.embed_url = <<>>
       THEN /\ pc' = "exit"
            /\ err' = "ConfigurationError"
            /\ UNCHANGED <<session, guid>>
       ELSE /\ session' = "open"
            /\ guid' = Guid(config.embed_url)
            /\ pc' = "fetch_embed"
            /\ UNCHANGED err
    /\ UNCHANGED <<args, config, embedGets, embed_page, server_id, context_id,
                   secret, file_name, resolution, mainLog, downloads, stop, hbpc,
                   time_pos, hbLast, hbPings, hbStarted, fetchErr>>
    /\ UNCHANGED <<swallowed, manifest, prompts, message, lateSends>>

\* faulty variant: a failed GET of the embed page is tried once more
FetchEmbed_Retry ==
    /\ pc = "fetch_embed"
    /\ embedGets' = embedGets + 1
    /\ \E resp \in EmbedResponses(config.embed_url) :
         IF ~resp.ok
         THEN /\ pc' = IF embedGets = 0 THEN "fetch_embed" ELSE "exit"
              /\ err' = IF embedGets = 0 THEN err ELSE "NetworkError"
              /\ UNCHANGED embed_page
         ELSE /\ pc' = "extract"
              /\ embed_page' = resp.page
              /\ UNCHANGED err
    /\ UNCHANGED <<args, config, session, guid, server_id, context_id, secret,
                   file_name, resolution, mainLog, downloads, stop, hbpc,
                   time_pos, hbLast, hbPings, hbStarted, fetchErr>>
    /\ UNCHANGED <<swallowed, manifest, prompts, message, lateSends>>

\* _parse_embed_page, lines 85-93: the GET of the embed page
FetchEmbed ==
    /\ pc = "fetch_embed"
    /\ embedGets' = embedGets + 1
    /\ \E resp \in EmbedResponses(config.embed_url) :
         IF ~resp.ok
         THEN /\ pc' = "exit"
              /\ err' = "NetworkError"
              /\ UNCHANGED embed_page
         ELSE /\ pc' = "extract"
              /\ embed_page' = resp.page
              /\ UNCHANGED err
    /\ UNCHANGED <<args, config, session, guid, server_id, context_id, secret,
                   file_name, resolution, mainLog, downloads, stop, hbpc,
                   time_pos, hbLast, hbPings, hbStarted, fetchErr>>
    /\ UNCHANGED <<swallowed, manifest, prompts, message, lateSends>>

\* _parse_embed_page, lines 95-134, and the rest of __init__; the page is a
\* local, gone once the method has returned
ExtractFields ==
    /\ pc = "extract"
    /\ LET r == ParseEmbedPage(embed_page, config.name)
       IN /\ server_id' = r.server_id
          /\ context_id' = r.context_id
          /\ secret' = r.secret
          /\ file_name' = r.file_name
          /\ err' = r.error
          /\ pc' = IF r.error = "none" THEN "ready" ELSE "exit"
          /\ embed_page' = IF r.error = "none" THEN <<>> ELSE embed_page
    /\ UNCHANGED <<args, config, session, embedGets, guid, resolution, mainLog,
                   downloads, stop, hbpc, time_pos, hbLast, hbPings, hbStarted,
                   fetchErr>>
    /\ UNCHANGED <<swallowed, manifest, prompts, message, lateSends>>

\* a caller invokes download() on the constructed object (main.py:134), or
\* invokes it again after it returned or raised
CallDownload ==
    /\ pc \in {"ready", "returned"}
    /\ downloads < MaxDownloads
    /\ downloads' = downloads + 1
    /\ pc' = DownloadSteps[1]
    /\ err' = "none"
    /\ FreshCall
    /\ UNCHANGED <<args, config, session, embedGets, embed_page, guid, server_id, context_id,
                   secret, file_name, hbStarted, time_pos>>

\* line 301: self._ping(time_pos=0, paused="true", res="0")
PrimingPing ==
    /\ pc = "d_ping"
    /\ mainLog' = Append(mainLog,
           Step("ping", PingRequest([float |-> FALSE, us |-> 0], "true", <<"0">>)))
    /\ \E ok \in BOOLEAN :
         /\ Swallow(ok)
         /\ pc' = AfterSwallowed("d_ping", ok)
    /\ UNCHANGED <<manifest, prompts, message, lateSends>>
    /\ UNCHANGED <<args, config, err, session, embedGets, embed_page, guid, server_id,
                   context_id, secret, file_name, resolution, downloads, stop,
                   hbpc, time_pos, hbLast, hbPings, hbStarted, fetchErr>>

\* line 302: self._activate()
Activate ==
    /\ pc = "d_activate"
    /\ mainLog' = Append(mainLog,
           Step("activate", [server |-> server_id, ctx |-> context_id]))
    /\ \E ok \in BOOLEAN :
         /\ Swallow(ok)
         /\ pc' = AfterSwallowed("d_activate", ok)
    /\ UNCHANGED <<manifest, prompts, message, lateSends>>
    /\ UNCHANGED <<args, config, err, session, embedGets, embed_page, guid, server_id,
                   context_id, secret, file_name, resolution, downloads, stop,
                   hbpc, time_pos, hbLast, hbPings, hbStarted, fetchErr>>

\* line 303, resolution = self._get_main_playlist(): the GET of the manifest
\* (lines 192-200) returns a body, or fails and NetworkError is raised
GetMainPlaylist ==
    /\ pc = "d_playlist"
    /\ mainLog' = Append(mainLog,
           Step("playlist", [guid |-> guid, ctx |-> context_id, secret |-> secret]))
    /\ \/ /\ pc' = "returned"
          /\ err' = "NetworkError"
          /\ message' = FetchFailed
          /\ UNCHANGED manifest
       \/ \E body \in BodySet :
             /\ manifest' = body
             /\ pc' = After("d_playlist")
             /\ UNCHANGED <<err, message>>
    /\ UNCHANGED <<args, config, session, embedGets, embed_page, guid, server_id, context_id,
                   secret, file_name, resolution, downloads, stop, hbpc, time_pos,
                   hbLast, hbPings, hbStarted, fetchErr, swallowed, prompts,
                   lateSends>>

\* _get_main_playlist, lines 201-243: the labels are collected and one is
\* returned, or PlaylistError is raised; the body is a local of the method
SelectRendition ==
    /\ pc = "d_select"
    /\ \E answer \in InputSet :
         LET r == SelectResolution(Resolutions(manifest), config.resolution,
                                   config.interactive, answer)
         IN /\ prompts' = (IF r.asked THEN Append(prompts, answer) ELSE prompts)
            /\ message' = r.message
            /\ IF r.error # "none"
               THEN /\ pc' = "returned"
                    /\ err' = r.error
                    /\ UNCHANGED <<resolution, mainLog>>
               ELSE /\ mainLog' = Append(mainLog, Step("select", [label |-> r.res]))
                    /\ pc' = After("d_select")
                    /\ resolution' = r.res
                    /\ UNCHANGED err
    /\ manifest' = <<>>
    /\ UNCHANGED <<args, config, session, embedGets, embed_page, guid, server_id, context_id,
                   secret, file_name, downloads, stop, hbpc, time_pos, hbLast,
                   hbPings, hbStarted, fetchErr, swallowed, lateSends>>

\* line 304: self._video_playlist(resolution)
VideoPlaylist ==
    /\ pc = "d_confirm"
    /\ mainLog' = Append(mainLog,
           Step("confirm", [guid |-> guid, label |-> resolution, ctx |-> context_id]))
    /\ \E ok \in BOOLEAN :
         /\ Swallow(ok)
         /\ pc' = AfterSwallowed("d_confirm", ok)
    /\ UNCHANGED <<manifest, prompts, message, lateSends>>
    /\ UNCHANGED <<args, config, err, session, embedGets, embed_page, guid, server_id,
                   context_id, secret, file_name, resolution, downloads, stop,
                   hbpc, time_pos, hbLast, hbPings, hbStarted, fetchErr>>

\* lines 307-313: a fresh Event, and the thread is started
StartHeartbeat ==
    /\ pc = "d_start"
    /\ stop' = FALSE
    /\ hbpc' = "init"
    /\ hbPings' = 0
    /\ hbLast' = NoRequest
    /\ hbStarted' = hbStarted + 1
    /\ mainLog' = Append(mainLog, Step("hb_start", [label |-> resolution]))
    /\ pc' = After("d_start")
    /\ UNCHANGED <<args, config, err, session, embedGets, embed_page, guid, server_id,
                   context_id, secret, file_name, resolution, downloads, fetchErr,
                   time_pos>>
    /\ UNCHANGED <<swallowed, manifest, prompts, message, lateSends>>

\* faulty variant: the URL names the guid but not the rendition
TransferUrl_NoLabel(label) == [guid |-> guid, label |-> <<>>, ctx |-> context_id]

\* lines 315-317: .../{guid}/{resolution}/video.drm?contextId={context_id}
TransferUrl(label) == [guid |-> guid, label |-> label, ctx |-> context_id]

\* lines 315-349: the URL is built and ydl.download(url) is entered
FetchCall ==
    /\ pc = "d_fetch"
    /\ mainLog' = Append(mainLog, Step("transfer", TransferUrl(resolution)))
    /\ pc' = After("d_fetch")
    /\ UNCHANGED <<args, config, err, session, embedGets, embed_page, guid, server_id,
                   context_id, secret, file_name, resolution, downloads, stop,
                   hbpc, time_pos, hbLast, hbPings, hbStarted, fetchErr>>
    /\ UNCHANGED <<swallowed, manifest, prompts, message, lateSends>>

\* ydl.download(url) returns, or raises
FetchEnd ==
    /\ pc = "d_fetching"
    /\ \E outcome \in {"none", "DownloadError"} :
         /\ fetchErr' = outcome
         /\ pc' = AfterFetch(outcome)
    /\ UNCHANGED <<args, config, err, session, embedGets, embed_page, guid, server_id,
                   context_id, secret, file_name, resolution, mainLog, downloads,
                   stop, hbpc, time_pos, hbLast, hbPings, hbStarted>>
    /\ UNCHANGED <<swallowed, manifest, prompts, message, lateSends>>

\* faulty variant: the primary flow also rewinds the heartbeat's counter
SetStop_RewindsCounter ==
    /\ pc = "f_set"
    /\ stop' = TRUE
    /\ time_pos' = 0
    /\ mainLog' = Append(mainLog, Step("stop_set", NoRequest))
    /\ pc' = After("f_set")
    /\ UNCHANGED <<args, config, err, session, embedGets, embed_page, guid, server_id,
                   context_id, secret, file_name, resolution, downloads, hbpc,
                   hbLast, hbPings, hbStarted, fetchErr>>
    /\ UNCHANGED <<swallowed, manifest, prompts, message, lateSends>>

\* line 351: stop_event.set()
SetStop ==
    /\ pc = "f_set"
    /\ stop' = TRUE
    /\ mainLog' = Append(mainLog, Step("stop_set", NoRequest))
    /\ pc' = After("f_set")
    /\ UNCHANGED <<args, config, err, session, embedGets, embed_page, guid, server_id,
                   context_id, secret, file_name, resolution, downloads, hbpc,
                   time_pos, hbLast, hbPings, hbStarted, fetchErr>>
    /\ UNCHANGED <<swallowed, manifest, prompts, message, lateSends>>

\* line 352: ping_thread.join()
Join ==
    /\ pc = "f_join"
    /\ JoinReturns(hbpc)
    /\ mainLog' = Append(mainLog, Step("joined", NoRequest))
    /\ pc' = After("f_join")
    /\ UNCHANGED <<args, config, err, session, embedGets, embed_page, guid, server_id,
                   context_id, secret, file_name, resolution, downloads, stop,
                   hbpc, time_pos, hbLast, hbPings, hbStarted, fetchErr>>
    /\ UNCHANGED <<swallowed, manifest, prompts, message, lateSends>>

\* line 353: self.session.close()
CloseSession ==
    /\ pc = "f_close"
    /\ session' = "closed"
    /\ mainLog' = Append(mainLog, Step("close", NoRequest))
    /\ pc' = After("f_close")
    /\ UNCHANGED <<args, config, err, embedGets, embed_page, guid, server_id, context_id,
                   secret, file_name, resolution, downloads, stop, hbpc,
                   time_pos, hbLast, hbPings, hbStarted, fetchErr>>
    /\ UNCHANGED <<swallowed, manifest, prompts, message, lateSends>>

\* the finally block ends: download() returns, or the pending exception
\* propagates to the caller
Return ==
    /\ pc = "d_return"
    /\ pc' = "returned"
    /\ err' = fetchErr
    /\ UNCHANGED <<args, config, session, embedGets, embed_page, guid, server_id, context_id,
                   secret, file_name, resolution, mainLog, downloads, stop, hbpc,
                   time_pos, hbLast, hbPings, hbStarted, fetchErr>>
    /\ UNCHANGED <<swallowed, manifest, prompts, message, lateSends>>

\* lines 279-281: the thread begins to run; res_val is computed (ResVal, used
\* where the ping is sent) and time_pos = 0.0
HbInit ==
    /\ hbpc = "init"
    /\ time_pos' = 0
    /\ hbpc' = "check"
    /\ UNCHANGED <<args, config, pc, err, session, embedGets, embed_page, guid, server_id,
                   context_id, secret, file_name, resolution, mainLog, downloads,
                   stop, hbLast, hbPings, hbStarted, fetchErr>>
    /\ UNCHANGED <<swallowed, manifest, prompts, message, lateSends>>

\* line 282: the loop condition is evaluated
HbCheck ==
    /\ hbpc = "check"
    /\ IF LoopContinues(stop, time_pos)
       THEN /\ time_pos < MaxTicks
            /\ hbpc' = "ping"
       ELSE hbpc' = "done"
    /\ UNCHANGED <<args, config, pc, err, session, embedGets, embed_page, guid, server_id,
                   context_id, secret, file_name, resolution, mainLog, downloads,
                   stop, time_pos, hbLast, hbPings, hbStarted, fetchErr>>
    /\ UNCHANGED <<swallowed, manifest, prompts, message, lateSends>>

\* lines 283-287: the ping of this tick is sent
HbPingSend ==
    /\ hbpc = "ping"
    /\ \E r \in RandomSet :
         hbLast' = [ req |-> PingRequest([float |-> TRUE,
                                          us |-> time_pos * 1000000 + Round6(r)],
                                         "false", ResVal(resolution)),
                     ok |-> "pending" ]
    /\ hbPings' = hbPings + 1
    /\ hbpc' = "inflight"
    /\ lateSends' = lateSends + (IF stop THEN 1 ELSE 0)
    /\ UNCHANGED <<args, config, pc, err, session, embedGets, embed_page, guid, server_id,
                   context_id, secret, file_name, resolution, mainLog, downloads,
                   stop, time_pos, hbStarted, fetchErr>>
    /\ UNCHANGED <<swallowed, manifest, prompts, message>>

\* the GET of _ping returns or raises RequestException, which is swallowed
HbPingReturn ==
    /\ hbpc = "inflight"
    /\ \E ok \in {"ok", "failed"} :
         /\ hbLast' = [hbLast EXCEPT !.ok = ok]
         /\ hbpc' = AfterPing(ok)
    /\ UNCHANGED <<args, config, pc, err, session, embedGets, embed_page, guid, server_id,
                   context_id, secret, file_name, resolution, mainLog, downloads,
                   stop, time_pos, hbPings, hbStarted, fetchErr>>
    /\ UNCHANGED <<swallowed, manifest, prompts, message, lateSends>>

\* faulty variant: after the sleep the body runs again without a look at the
\* flag
HbSleep_SkipsCheck ==
    /\ hbpc = "sleep"
    /\ time_pos' = time_pos + 1
    /\ hbpc' = IF time_pos + 1 < MaxTicks THEN "ping" ELSE "check"
    /\ UNCHANGED <<args, config, pc, err, session, embedGets, embed_page, guid, server_id,
                   context_id, secret, file_name, resolution, mainLog, downloads,
                   stop, hbLast, hbPings, hbStarted, fetchErr>>
    /\ UNCHANGED <<swallowed, manifest, prompts, message, lateSends>>

\* lines 288-289: time_pos += 1.0; time.sleep(1)
HbSleep ==
    /\ hbpc = "sleep"
    /\ time_pos' = time_pos + 1
    /\ hbpc' = "check"
    /\ UNCHANGED <<args, config, pc, err, session, embedGets, embed_page, guid, server_id,
                   context_id, secret, file_name, resolution, mainLog, downloads,
                   stop, hbLast, hbPings, hbStarted, fetchErr>>
    /\ UNCHANGED <<swallowed, manifest, prompts, message, lateSends>>

Next ==
    \/ MakeConfig
    \/ Construct
    \/ FetchEmbed
    \/ ExtractFields
    \/ CallDownload
    \/ PrimingPing
    \/ Activate
    \/ GetMainPlaylist
    \/ SelectRendition
    \/ VideoPlaylist
    \/ StartHeartbeat
    \/ FetchCall
    \/ FetchEnd
    \/ SetStop
    \/ Join
    \/ CloseSession
    \/ Return
    \/ HbInit
    \/ HbCheck
    \/ HbPingSend
    \/ HbPingReturn
    \/ HbSleep

Spec == Init /\ [][Next]_vars

\* Both threads are scheduled: whichever of them can take its next step
\* eventually takes it, and a ping that was sent eventually returns or fails.
\* The delegated transfer (FetchEnd) is not required to end.
FairSpec ==
    /\ Spec
    /\ WF_vars(SetStop \/ Join \/ CloseSession \/ Return)
    /\ WF_vars(HbInit \/ HbCheck \/ HbPingSend \/ HbPingReturn \/ HbSleep)

-----------------------------------------------------------------------------
(* Properties *)

Ops == [i \in 1..Len(mainLog) |-> mainLog[i].op]
HasOp(o) == \E i \in 1..Len(mainLog) : mainLog[i].op = o
IsPrefix(a, b) == Len(a) <= Len(b) /\ \A i \in 1..Len(a) : a[i] = b[i]
HbRunning == hbpc \in {"init", "check", "ping", "inflight", "sleep"}

\* the order the handshake contract prescribes, up to the delegated transfer
ContractOrder ==
    << "ping", "activate", "playlist", "select", "confirm", "hb_start", "transfer" >>

\* C1: in every download() call the outbound steps are issued in the order
\* priming ping (time 0, paused "true", res "0"), activate, manifest fetch,
\* selection, confirmation of the selected rendition, heartbeat start,
\* transfer; the heartbeat exists and pings only after the confirmation, and
\* the transfer is delegated only with the heartbeat started.
C1_HandshakeOrder ==
    /\ IsPrefix(SubSeq(Ops, 1, IF Len(Ops) < 7 THEN Len(Ops) ELSE 7), ContractOrder)
    /\ mainLog # <<>> =>
         /\ mainLog[1].req.time = <<"0">>
         /\ mainLog[1].req.paused = "true"
         /\ mainLog[1].req.chosen_res = <<"0">>
    /\ HasOp("confirm") =>
         \E i \in 1..Len(mainLog) :
            /\ mainLog[i].op = "confirm"
            /\ mainLog[i - 1].op = "select"
            /\ mainLog[i].req.label = mainLog[i - 1].req.label
    /\ (hbpc # "idle" \/ hbPings > 0 \/ hbLast # NoRequest) => HasOp("confirm")
    /\ (pc = "d_fetching" \/ HasOp("transfer")) => (HasOp("hb_start") /\ hbpc # "idle")

C1_Witness == HasOp("transfer") /\ hbPings > 0 /\ pc = "d_fetching"

\* C2: a ping, activate, playlist or video-playlist request is issued only
\* with serverId, contextId and secret populated by a successful extraction.
C2_NoRequestBeforeExtraction ==
    (mainLog # <<>> \/ hbLast # NoRequest) =>
        /\ embedGets >= 1
        /\ server_id # "unset" /\ context_id # "unset" /\ secret # "unset"
        /\ \A i \in 1..Len(mainLog) :
             /\ mainLog[i].op \in {"ping", "activate"} =>
                  mainLog[i].req.server # "unset" /\ mainLog[i].req.ctx # "unset"
             /\ mainLog[i].op = "playlist" =>
                  mainLog[i].req.ctx # "unset" /\ mainLog[i].req.secret # "unset"
             /\ mainLog[i].op = "confirm" => mainLog[i].req.ctx # "unset"
        /\ hbLast # NoRequest =>
             hbLast.req.server # "unset" /\ hbLast.req.ctx # "unset"

C2_Witness == HasOp("confirm") /\ hbLast # NoRequest

\* C3: when the delegated fetch has raised or returned, download() hands
\* control back only with the stop flag set and the heartbeat thread joined.
C3_CleanupBeforePropagation ==
    (pc \in {"d_return", "returned"} /\ (HasOp("transfer") \/ fetchErr # "none")) =>
        /\ stop
        /\ hbpc = "done"
        /\ HasOp("stop_set")
        /\ HasOp("joined")

C3_Witness == pc = "returned" /\ err = "DownloadError" /\ hbPings > 0

\* C4: on every exit path of the orchestrator that created a session, no
\* heartbeat is running and the session has been closed when control is
\* back at the caller.
C4_ReleasedOnEveryExit ==
    (pc \in {"exit", "returned"} /\ session # "none") =>
        (session = "closed" /\ ~HbRunning)

\* C5: a heartbeat loop that has read the stop flag as set issues no further
\* ping and starts no tick, and the first loop-condition check made with the
\* flag set reads it as set (the flag is never cleared under the loop).
C5_NoTickAfterObserved ==
    [][ (downloads' = downloads /\ hbStarted' = hbStarted) =>
          /\ hbpc = "done" =>
               (hbpc' = "done" /\ hbPings' = hbPings /\ hbLast' = hbLast)
          /\ (stop /\ hbpc = "check" /\ hbpc' # hbpc) => hbpc' = "done"
          /\ stop => stop' ]_vars

C5_Witness == hbpc = "done" /\ hbPings > 0 /\ stop /\ pc = "f_join"

\* C6: within download() the session is closed only with the stop flag set
\* and the heartbeat thread terminated, so no heartbeat ping is in flight or
\* issued once the call has closed the session.
C6_CloseAfterHeartbeatStopped ==
    (pc \in {"f_close", "d_return"} \/ HasOp("close")) =>
        /\ stop
        /\ hbpc = "done"
        /\ \E i, j \in 1..Len(mainLog) :
             i < j /\ mainLog[i].op = "stop_set" /\ mainLog[j].op = "joined"
        /\ HasOp("close") => mainLog[Len(mainLog)].op = "close"

C6_Witness == HasOp("close") /\ session = "closed" /\ hbPings > 0

\* C7: over the lifetime of one BunnyVideoDRM object at most one heartbeat
\* loop is started, and none runs once the session has been closed.
C7_OneHeartbeatPerSession ==
    /\ hbStarted <= 1
    /\ session = "closed" => ~HbRunning

\* the claim's reading of the referer pattern: scheme, then dot-separated
\* non-empty labels, the last of them two or more letters, then a slash
WellFormedReferer(r) ==
    \E p \in {8, 9} :
        /\ p - 1 <= Len(r)
        /\ SubSeq(r, 1, p - 1) \in { <<"h","t","t","p",":","/","/">>,
                                     <<"h","t","t","p","s",":","/","/">> }
        /\ \E d \in {k \in (p + 1)..Len(r) : r[k] = "."} :
             /\ \A k \in p..(d - 1) : r[k] \in LabelChars \cup {"."}
             /\ r[p] # "."
             /\ \A k \in p..(d - 1) : r[k] = "." => r[k + 1] # "."
             /\ \E e \in {k \in (d + 3)..Len(r) : r[k] = "/"} :
                  \A k \in (d + 1)..(e - 1) : r[k] \in Letters

WithSlash(r) == IF r # <<>> /\ r[Len(r)] = "/" THEN r ELSE r \o <<"/">>

BadConfig(a) ==
    \/ a.referer = <<>>
    \/ a.embed_url = <<>>
    \/ ~WellFormedReferer(WithSlash(a.referer))

NothingSent == embedGets = 0 /\ mainLog = <<>> /\ hbLast = NoRequest /\ downloads = 0

\* C8: a configuration with a missing referer, a missing embed URL or a
\* referer that does not match the pattern after the slash is appended fails
\* with ConfigurationError, and the run issues no HTTP request.
C8_BadConfigRejected ==
    (pc # "main" /\ BadConfig(args)) =>
        (pc = "exit" /\ err = "ConfigurationError" /\ session = "none" /\ NothingSent)

C8_Witness ==
    /\ pc = "exit" /\ err = "ConfigurationError"
    /\ args.referer # <<>> /\ args.embed_url # <<>>
    /\ SchemeEnd(args.referer) # 0

\* C9 as stated: a non-empty embed URL that is not a well-formed absolute
\* HTTP(S) URL is rejected with ConfigurationError before any request.
C9_EmbedUrlValidated ==
    (pc # "main" /\ args.embed_url # <<>> /\ ~WellFormedReferer(WithSlash(args.embed_url))) =>
        (err = "ConfigurationError" /\ NothingSent)

\* C9 amended: ConfigurationError is raised exactly when the referer or the
\* embed URL is missing or the slash-normalised referer does not match the
\* pattern; a non-empty embed URL is accepted as given, whatever its form,
\* and construction goes on to open the session.
C9_OnlyRefererValidated ==
    pc # "main" =>
        /\ (err = "ConfigurationError") <=> BadConfig(args)
        /\ ~BadConfig(args) =>
             /\ config.embed_url = args.embed_url
             /\ pc # "construct" => session # "none"

C9_Witness ==
    /\ pc = "exit" /\ err = "NetworkError"
    /\ args.embed_url # <<>> /\ SchemeEnd(args.embed_url) = 0

Lacks(page, kind) == \A i \in 1..Len(page) : page[i].kind # kind

\* C10: extraction from a page that lacks the server-id pattern, or the
\* contextId/secret pattern, or the og:title pattern with no override name,
\* fails with ExtractionError, and such a run issues no request but the embed
\* GET; with an override name a missing og:title does not fail.
C10_ExtractionFailure ==
    /\ [](err = "ExtractionError" =>
            /\ pc = "exit"
            /\ embedGets = 1 /\ mainLog = <<>> /\ hbLast = NoRequest /\ downloads = 0)
    /\ [][ (pc = "extract" /\ pc' # "extract") =>
             /\ ( \/ Lacks(embed_page, "server")
                  \/ Lacks(embed_page, "ctx")
                  \/ (Lacks(embed_page, "title") /\ config.name = <<>>) )
                => (err' = "ExtractionError" /\ pc' = "exit")
             /\ ( /\ ~Lacks(embed_page, "server")
                  /\ ~Lacks(embed_page, "ctx")
                  /\ config.name # <<>> )
                => (err' = "none" /\ pc' = "ready") ]_vars

C10_Witness ==
    /\ pc = "exit" /\ err = "ExtractionError"
    /\ ~Lacks(embed_page, "server") /\ ~Lacks(embed_page, "ctx")
    /\ Lacks(embed_page, "title")

CountOp(o) == Cardinality({i \in 1..Len(mainLog) : mainLog[i].op = o})

\* C11: a failed GET of the embed page or of the manifest surfaces as
\* NetworkError after exactly one attempt, and nothing follows it: no ping,
\* activate or manifest request after a failed embed fetch, and no selection,
\* confirmation, heartbeat or transfer after a failed manifest fetch.
C11_FetchFailureIsFatal ==
    /\ []( /\ (pc = "exit" /\ err = "NetworkError") =>
                 /\ embedGets = 1
                 /\ mainLog = <<>> /\ hbLast = NoRequest /\ downloads = 0
           /\ (pc = "returned" /\ err = "NetworkError") =>
                 /\ CountOp("playlist") = 1
                 /\ mainLog[Len(mainLog)].op = "playlist"
                 /\ hbpc = "idle" /\ hbLast = NoRequest /\ resolution = <<>> )
    /\ [][ /\ pc = "fetch_embed" =>
                 /\ embedGets' = 1
                 /\ pc' = "extract" \/ (pc' = "exit" /\ err' = "NetworkError")
                 /\ SchemeEnd(config.embed_url) = 0 => pc' = "exit"
           /\ pc = "d_playlist" =>
                 /\ CountOp("playlist") = 0
                 /\ pc' = "d_select" \/ (pc' = "returned" /\ err' = "NetworkError") ]_vars

C11_Witness ==
    /\ pc = "returned" /\ err = "NetworkError" /\ message = FetchFailed
    /\ Ops = <<"ping", "activate", "playlist">>

MarkerLines(body) == {i \in 1..Len(body) : body[i].kind = "marker"}

\* C12: a manifest without any "<label>/video.drm" marker makes the manifest
\* step fail with PlaylistError, and no selection, confirmation, heartbeat
\* start or transfer follows in that call.
C12_NoRenditionsIsPlaylistError ==
    /\ [][ (pc = "d_select" /\ MarkerLines(manifest) = {}) =>
              /\ pc' = "returned" /\ err' = "PlaylistError"
              /\ UNCHANGED <<mainLog, resolution, hbpc, hbStarted, prompts>> ]_vars
    /\ []( (pc = "returned" /\ err = "PlaylistError") =>
              /\ mainLog[Len(mainLog)].op = "playlist"
              /\ ~HasOp("confirm") /\ ~HasOp("hb_start") /\ ~HasOp("transfer")
              /\ hbpc = "idle" /\ hbLast = NoRequest )

C12_Witness ==
    /\ pc = "returned" /\ err = "PlaylistError" /\ message = NoResolutions
    /\ Ops = <<"ping", "activate", "playlist">>

\* the line of body that holds its k-th marker, counted in document order
KthMarker(body, k) ==
    CHOOSE i \in MarkerLines(body) :
        Cardinality({j \in MarkerLines(body) : j <= i}) = k

\* list holds the labels of the markers of body, last marker first
IsReverseOfMarkers(list, body) ==
    LET n == Cardinality(MarkerLines(body))
    IN /\ Len(list) = n
       /\ \A k \in 1..n : list[k] = body[KthMarker(body, n + 1 - k)].label

\* C13: the list the selection works on holds the labels of the manifest's
\* markers in reverse document order, each as often as it occurs; the list
\* printed in a "not found" error and the default choice (its first entry,
\* the label of the last marker) show it.
C13_ReverseDocumentOrder ==
    /\ [](pc = "d_select" => IsReverseOfMarkers(Resolutions(manifest), manifest))
    /\ [][ pc = "d_select" =>
              /\ message' \notin {NoMessage, NoResolutions, InvalidSelection} =>
                    IsReverseOfMarkers(message'.available, manifest)
              /\ ( /\ MarkerLines(manifest) # {}
                   /\ config.resolution = <<>> /\ ~config.interactive ) =>
                    resolution' =
                      manifest[KthMarker(manifest, Cardinality(MarkerLines(manifest)))].label
          ]_vars

C13_Witness ==
    /\ pc = "returned"
    /\ message = NotFound(<<"4","K">>, <<L1080, L720, L480>>)

Labels(body) == {body[i].label : i \in MarkerLines(body)}

\* C14: with an explicit target, whenever some label of the manifest equals
\* the target the selection returns that label, whatever other labels the
\* target matches as a pattern.
C14_ExactMatchFirst ==
    [][ (pc = "d_select" /\ config.resolution # <<>>
            /\ config.resolution \in Labels(manifest)) =>
          (pc' = "d_confirm" /\ resolution' = config.resolution) ]_vars

\* the marker lines of body whose label the target matches as a pattern
PatternHits(body, target) ==
    {i \in MarkerLines(body) : PatternCompiles(target) /\ ReSearch(target, body[i].label)}

\* C15: with an explicit target that equals no label but matches some label
\* as a pattern, the selection returns the first matching label of the
\* highest-first list, i.e. the label of the last matching marker of the
\* manifest; "720" against 1920x1080, 1280x720, 640x480 gives 1280x720.
C15_FirstPatternMatch ==
    [][ (pc = "d_select" /\ config.resolution # <<>>
            /\ config.resolution \notin Labels(manifest)
            /\ PatternHits(manifest, config.resolution) # {}) =>
          LET hits == PatternHits(manifest, config.resolution)
              last == CHOOSE i \in hits : \A j \in hits : j <= i
          IN /\ pc' = "d_confirm" /\ err' = "none"
             /\ resolution' = manifest[last].label
             /\ (manifest = SampleBody /\ config.resolution = S720) => resolution' = L720
      ]_vars

\* "0x", which equals no label, was asked for, and the highest label was
\* selected as the first one it matches
C15_Witness ==
    /\ pc = "d_confirm" /\ config.resolution = <<"0","x">>
    /\ resolution = L1080

\* C16: with an explicit target that equals no label and matches none as a
\* pattern (a target that is not a valid pattern matches none), the selection
\* fails with PlaylistError, the message lists every label of the manifest,
\* and neither the prompt is read nor a rendition selected.
C16_NoMatchIsPlaylistError ==
    [][ (pc = "d_select" /\ config.resolution # <<>>
            /\ config.resolution \notin Labels(manifest)
            /\ PatternHits(manifest, config.resolution) = {}) =>
          /\ pc' = "returned" /\ err' = "PlaylistError"
          /\ prompts' = <<>> /\ resolution' = <<>> /\ mainLog' = mainLog
          /\ MarkerLines(manifest) # {} =>
                /\ message'.target = config.resolution
                /\ \A l \in Labels(manifest) :
                      \E k \in 1..Len(message'.available) : message'.available[k] = l
      ]_vars

C16_Witness ==
    /\ pc = "returned" /\ err = "PlaylistError" /\ config.interactive
    /\ message = NotFound(<<"(">>, <<L1080, L720, L480>>)
    /\ prompts = <<>> /\ resolution = <<>>

\* the typed line is the decimal numeral of an integer in lo..hi (the answers
\* tried carry no "+" sign, blanks or leading zeros)
IsIndex(line, lo, hi) == \E k \in lo..hi : line = NatStr(k)

\* C17: in interactive mode without a target, an answer that is an integer
\* k in 1..n selects the k-th label of the highest-first list (the k-th marker
\* from the end of the manifest); any other answer fails with PlaylistError
\* and selects nothing.
C17_PromptSelection ==
    [][ (pc = "d_select" /\ config.resolution = <<>> /\ config.interactive
            /\ MarkerLines(manifest) # {}) =>
          LET n == Cardinality(MarkerLines(manifest))
          IN /\ Len(prompts') = 1
             /\ IF IsIndex(prompts'[1], 1, n)
                THEN LET k == CHOOSE k \in 1..n : prompts'[1] = NatStr(k)
                     IN /\ pc' = "d_confirm" /\ err' = "none"
                        /\ resolution' = manifest[KthMarker(manifest, n + 1 - k)].label
                ELSE /\ pc' = "returned" /\ err' = "PlaylistError"
                     /\ resolution' = <<>> /\ mainLog' = mainLog
      ]_vars

C17_Witness ==
    /\ pc = "d_fetching" /\ config.interactive /\ config.resolution = <<>>
    /\ prompts = << <<"3">> >> /\ resolution = L480

\* C18: the policies are tried in the order explicit target, interactive
\* prompt, default: with a target the prompt is never read, even in
\* interactive mode; without a target the prompt is read in interactive mode
\* only; with neither, the first entry of the highest-first list (the label
\* of the last marker) is returned.
C18_SelectionPriority ==
    /\ []( (config.resolution # <<>> \/ ~config.interactive) => prompts = <<>> )
    /\ [][ (pc = "d_select" /\ MarkerLines(manifest) # {}) =>
              /\ (config.resolution = <<>> /\ config.interactive) => Len(prompts') = 1
              /\ (config.resolution = <<>> /\ ~config.interactive) =>
                    /\ pc' = "d_confirm" /\ err' = "none"
                    /\ resolution' =
                         manifest[KthMarker(manifest, Cardinality(MarkerLines(manifest)))].label
          ]_vars

C18_Witness ==
    /\ pc = "d_fetching" /\ config.interactive /\ config.resolution = S720
    /\ prompts = <<>> /\ resolution = L720

\* C19: whether the priming ping, the activate call or the confirmation of
\* the rendition fails or not, download() raises nothing there and goes on
\* with its next statement (activate, manifest fetch, heartbeat start), so a
\* call in which all three failed still starts the heartbeat and delegates
\* the transfer.
C19_HelperFailuresSwallowed ==
    /\ [][ /\ pc = "d_ping" => (pc' = "d_activate" /\ err' = "none")
           /\ pc = "d_activate" => (pc' = "d_playlist" /\ err' = "none")
           /\ pc = "d_confirm" => (pc' = "d_start" /\ err' = "none")
           /\ swallowed' > swallowed =>
                 /\ swallowed' = swallowed + 1
                 /\ pc \in {"d_ping", "d_activate", "d_confirm"}
                 /\ Len(mainLog') = Len(mainLog) + 1 ]_vars
    /\ []( swallowed <= CountOp("ping") + CountOp("activate") + CountOp("confirm") )

C19_Witness ==
    /\ swallowed = 3 /\ pc = "d_fetching"
    /\ Ops = ContractOrder /\ hbPings > 0

\* the ping requests the state shows: those of the main thread and the last
\* one of the heartbeat thread
PingsSeen ==
    {mainLog[i].req : i \in {j \in 1..Len(mainLog) : mainLog[j].op = "ping"}}
    \cup (IF hbLast = NoRequest THEN {} ELSE {hbLast.req})

SameTuple(p, q) == p.time = q.time /\ p.paused = q.paused /\ p.chosen_res = q.chosen_res

\* C20: the hash parameter of every ping is the digest of secret, contextId,
\* time, paused and resolution token, in that order, joined by single
\* underscores; pings with equal tuples carry equal hashes, however many
\* pings went before and whatever the tick counter is.
C20_TokenDeterministic ==
    /\ []( \A q \in PingsSeen :
             q.hash = Md5(<<secret, "_", context_id, "_", q.time, "_", q.paused, "_",
                            q.chosen_res>>) )
    /\ []( \A p, q \in PingsSeen : SameTuple(p, q) => p.hash = q.hash )
    /\ [][ (hbLast # NoRequest /\ hbLast' # NoRequest
              /\ SameTuple(hbLast.req, hbLast'.req)) =>
             hbLast'.req.hash = hbLast.req.hash ]_vars

\* the second heartbeat ping carries the time 1.0, which the first one
\* carries as well when its jitter rounds to 1.0
C20_Witness ==
    /\ hbPings = 2 /\ time_pos = 1 /\ hbLast # NoRequest
    /\ hbLast.req.time = <<"1", ".", "0">>
    /\ hbLast.req.hash = Md5(<<"k1", "_", "c1", "_", <<"1", ".", "0">>, "_", "false", "_",
                               <<"7", "2", "0">>>>)

\* C21: the heartbeat thread goes idle -> running -> stopped; it starts
\* running only from idle, stops only with the stop flag set, and a failed
\* ping neither ends the loop nor touches the primary flow: the loop sleeps,
\* checks the flag again and, with the flag unset, sends its next ping.
C21_HeartbeatLifecycle ==
    [][ /\ (HbRunning' /\ ~HbRunning) => (hbpc = "idle" /\ hbpc' = "init")
        /\ (hbpc = "init" /\ hbpc' # "init") => hbpc' = "check"
        /\ (HbRunning /\ ~HbRunning') => (hbpc = "check" /\ hbpc' = "done" /\ stop)
        /\ hbpc = "done" => hbpc' \in {"done", "idle"}
        /\ (hbpc = "inflight" /\ hbpc' # "inflight") =>
              (hbpc' = "sleep" /\ UNCHANGED <<pc, err, fetchErr, stop, session>>)
        /\ (hbpc = "sleep" /\ hbpc' # "sleep") => hbpc' = "check"
        /\ (hbpc = "check" /\ hbpc' # "check" /\ ~stop) => hbpc' = "ping" ]_vars

C21_Witness ==
    /\ hbpc = "ping" /\ time_pos = 1 /\ ~stop
    /\ hbLast # NoRequest /\ hbLast.ok = "failed"
    /\ pc = "d_fetching" /\ err = "none"

\* the number of microseconds a decimal rendering "<int>.<fraction>" denotes
Micros(txt) ==
    LET dot  == CHOOSE i \in 1..Len(txt) : txt[i] = "."
        frac == SubSeq(txt, dot + 1, Len(txt))
        pad  == [i \in 1..6 |-> IF i <= Len(frac) THEN frac[i] ELSE "0"]
    IN ParseInt(SubSeq(txt, 1, dot - 1)).val * 1000000 + ParseInt(pad).val

\* C22: the k-th heartbeat ping (k = 0, 1, ...) carries a time t with
\* k <= t < k + 1, and each heartbeat ping carries a later time than the one
\* before it.
C22_TickWindow ==
    /\ []( hbLast # NoRequest =>
             LET k == hbPings - 1
                 t == Micros(hbLast.req.time)
             IN k * 1000000 <= t /\ t < (k + 1) * 1000000 )
    /\ [][ (hbLast # NoRequest /\ hbLast' # NoRequest /\ hbPings' = hbPings + 1) =>
             Micros(hbLast.req.time) < Micros(hbLast'.req.time) ]_vars

\* tok is what follows the last "x" of label (all of label if it has none)
IsTokenOf(tok, label) ==
    \E i \in 0..Len(label) :
        /\ tok = SubSeq(label, i + 1, Len(label))
        /\ \A j \in 1..Len(tok) : tok[j] # "x"
        /\ i = 0 \/ label[i] = "x"

\* C23: every heartbeat ping has paused "false" and, as resolution token,
\* what follows the last "x" of the label selected in this call, so the same
\* token on every tick; the priming ping is the call's only ping with paused
\* "true" and res "0", and it is sent before any heartbeat ping.
C23_PingParameters ==
    /\ hbLast # NoRequest =>
          /\ hbLast.req.paused = "false"
          /\ IsTokenOf(hbLast.req.chosen_res, resolution)
          /\ \E i \in 1..Len(mainLog) :
                mainLog[i].op = "select" /\ mainLog[i].req.label = resolution
          /\ mainLog[1].op = "ping"
    /\ \A i \in 1..Len(mainLog) :
          mainLog[i].op = "ping" =>
             /\ i = 1
             /\ mainLog[i].req.paused = "true"
             /\ mainLog[i].req.chosen_res = <<"0">>

C23_Witness ==
    /\ hbPings = 2 /\ hbLast # NoRequest /\ resolution = L480
    /\ hbLast.req.chosen_res = <<"4", "8", "0">>

\* C24: serverId, contextId and secret are written once, by the extraction,
\* and the chosen resolution once per download() call, by the selection, all
\* before the call's heartbeat thread exists; no step changes them while a
\* heartbeat thread exists.  The elapsed-seconds counter is written by
\* heartbeat steps only, and a step of the primary flow changes nothing of a
\* running heartbeat but the stop flag, which it can only set.
C24_FieldOwnership ==
    [][ /\ (server_id' # server_id \/ context_id' # context_id \/ secret' # secret) =>
              /\ pc = "extract" /\ hbStarted = 0 /\ hbpc = "idle"
              /\ server_id = "unset" /\ context_id = "unset" /\ secret = "unset"
        /\ resolution' # resolution =>
              \/ pc = "d_select" /\ resolution = <<>> /\ hbpc = "idle"
              \/ pc' = "d_ping" /\ resolution' = <<>> /\ ~HbRunning
        /\ hbpc # "idle" =>
              \/ UNCHANGED <<server_id, context_id, secret, resolution>>
              \/ pc' = "d_ping" /\ hbpc = "done"
        /\ time_pos' # time_pos =>
              /\ pc' = pc /\ hbpc' # hbpc
              /\ hbpc \in {"init", "sleep"}
        /\ (pc' # pc /\ HbRunning) =>
              /\ UNCHANGED <<time_pos, hbpc, hbLast, hbPings>>
              /\ stop' # stop => (stop' /\ pc = "f_set")
        /\ stop' # stop => pc' # pc ]_vars

C24_Witness ==
    /\ pc = "f_join" /\ stop /\ hbpc = "sleep" /\ time_pos = 1 /\ hbPings = 2
    /\ server_id = "s1" /\ context_id = "c1" /\ secret = "k1" /\ resolution = L720

\* C25: once the delegated transfer has returned or raised, download()
\* eventually hands control back with the stop flag set, the heartbeat thread
\* terminated and the session closed, provided both threads keep being
\* scheduled and every ping that was sent returns.
C25_TeardownCompletes ==
    (pc = "f_set") ~>
        (pc = "returned" /\ stop /\ hbpc = "done" /\ session = "closed")

C25_Witness ==
    /\ pc = "returned" /\ err = "none" /\ stop /\ hbpc = "done" /\ session = "closed"
    /\ hbPings = 2 /\ Ops[Len(Ops)] = "close"

\* C26: in every ping the time, paused and chosen_res parameters are the very
\* texts that went into the digest sent with them, after the secret and the
\* contextId, and the request addresses the ping endpoint of the object's own
\* serverId and contextId.
C26_ParamsMatchToken ==
    \A q \in PingsSeen :
        LET hashed == q.hash.md5
        IN /\ Len(hashed) = 9
           /\ hashed[1] = secret /\ hashed[3] = context_id
           /\ hashed[5] = q.time /\ hashed[7] = q.paused /\ hashed[9] = q.chosen_res
           /\ q.server = server_id /\ q.ctx = context_id
           /\ server_id # "unset" /\ context_id # "unset"

C26_Witness ==
    /\ hbLast # NoRequest /\ hbLast.ok = "ok" /\ hbPings = 2
    /\ hbLast.req.time = <<"1", ".", "5">>
    /\ hbLast.req.hash.md5[5] = <<"1", ".", "5">>
    /\ hbLast.req.server = "s1" /\ hbLast.req.ctx = "c1"

\* C27: the URL given to the media fetcher carries the object's guid and
\* contextId and the label that the selection of this call returned and that
\* this call's confirmation request named before; no transfer is delegated
\* without such a confirmation.
C27_TransferUrlConfirmed ==
    \A i \in 1..Len(mainLog) :
        mainLog[i].op = "transfer" =>
            /\ mainLog[i].req.guid = guid /\ guid = Guid(config.embed_url)
            /\ mainLog[i].req.ctx = context_id /\ context_id # "unset"
            /\ \E j \in 1..(i - 1) :
                  /\ mainLog[j].op = "confirm"
                  /\ mainLog[j].req.label = mainLog[i].req.label
                  /\ mainLog[j].req.guid = mainLog[i].req.guid
                  /\ \E k \in 1..(j - 1) :
                        /\ mainLog[k].op = "select"
                        /\ mainLog[k].req.label = mainLog[i].req.label

C27_Witness ==
    /\ pc = "d_fetching" /\ Len(mainLog) = 7 /\ guid = <<"g", "1">>
    /\ mainLog[7] = Step("transfer", [guid |-> <<"g", "1">>, label |-> L1080, ctx |-> "c1"])
    /\ mainLog[5] = Step("confirm", [guid |-> <<"g", "1">>, label |-> L1080, ctx |-> "c1"])

\* C28: however the two threads interleave, a heartbeat thread sends at most
\* one ping with the stop flag set, namely the ping of an iteration whose
\* check of the flag came before the flag was set, and it sends one ping per
\* iteration: the pings sent equal the iterations completed, plus the one in
\* progress.
C28_AtMostOneLatePing ==
    /\ []( /\ lateSends <= 1
           /\ hbpc \in {"check", "ping", "done"} => hbPings = time_pos
           /\ hbpc \in {"inflight", "sleep"} => hbPings = time_pos + 1 )
    /\ [][ /\ hbPings' = hbPings + 1 => (hbpc = "ping" /\ hbpc' = "inflight")
           /\ lateSends' = lateSends + 1 => (stop /\ hbPings' = hbPings + 1)
           /\ (hbpc' = "ping" /\ hbpc # "ping") => (hbpc = "check" /\ ~stop) ]_vars

C28_Witness ==
    /\ lateSends = 1 /\ hbPings = 2 /\ stop /\ hbpc = "done" /\ pc = "f_join"

====
